---- MODULE Spec2Model ----
(***************************************************************************)
(* Model of the contact manager in main.py: the field validators (Name,    *)
(* Phone, Birthday), Record, AddressBook, and the command loop of main().  *)
(*                                                                         *)
(* Python strings are sequences of one-character tokens.  A character      *)
(* outside ASCII is written as its code point ("U+0660").  Exceptions are  *)
(* records [type, msg]; NoErr stands for a normal return.                  *)
(***************************************************************************)
EXTENDS Integers, Sequences, FiniteSets, TLC

VARIABLES rec, book, last, status, saved, out

vars == <<rec, book, last, status, saved, out>>

(***************************************************************************)
(* Bounds of the model.                                                    *)
(***************************************************************************)
MaxPhones == 3
MaxContacts == 2

(***************************************************************************)
(* Characters.                                                             *)
(***************************************************************************)
AsciiDigits == {"0", "1", "2", "3", "4", "5", "6", "7", "8", "9"}

\* U+0660 ARABIC-INDIC DIGIT ZERO: category Nd, str.isdigit() is True and
\* the regex class \d matches it.
\* U+00B2 SUPERSCRIPT TWO: category No, str.isdigit() is True, \d does not
\* match it.
DecimalChars == AsciiDigits \cup {"U+0660"}
DigitChars == DecimalChars \cup {"U+00B2"}
Whitespace == {" "}

DecVal(c) ==
    CASE c = "0" -> 0 [] c = "1" -> 1 [] c = "2" -> 2 [] c = "3" -> 3
      [] c = "4" -> 4 [] c = "5" -> 5 [] c = "6" -> 6 [] c = "7" -> 7
      [] c = "8" -> 8 [] c = "9" -> 9 [] c = "U+0660" -> 0

DigitChar(n) ==
    CASE n = 0 -> "0" [] n = 1 -> "1" [] n = 2 -> "2" [] n = 3 -> "3"
      [] n = 4 -> "4" [] n = 5 -> "5" [] n = 6 -> "6" [] n = 7 -> "7"
      [] n = 8 -> "8" [] n = 9 -> "9"

\* str.isdigit(): every character is a digit and there is at least one.
str_isdigit(s) == Len(s) > 0 /\ \A i \in 1..Len(s) : s[i] \in DigitChars

RECURSIVE lstrip(_)
lstrip(s) == IF s # <<>> /\ Head(s) \in Whitespace THEN lstrip(Tail(s)) ELSE s

RECURSIVE rstrip(_)
rstrip(s) ==
    IF s # <<>> /\ s[Len(s)] \in Whitespace
    THEN rstrip(SubSeq(s, 1, Len(s) - 1))
    ELSE s

str_strip(s) == rstrip(lstrip(s))

\* s.split(sep) for a one-character separator: the fields between the
\* separators, empty fields included.
RECURSIVE SplitOn(_, _, _)
SplitOn(s, sep, cur) ==
    IF s = <<>> THEN <<cur>>
    ELSE IF Head(s) = sep THEN <<cur>> \o SplitOn(Tail(s), sep, <<>>)
    ELSE SplitOn(Tail(s), sep, Append(cur, Head(s)))

\* s.split() without arguments: the maximal runs of non-whitespace.
str_split(s) == SelectSeq(SplitOn(s, " ", <<>>), LAMBDA w : w # <<>>)

(***************************************************************************)
(* Exceptions.                                                             *)
(***************************************************************************)
NoErr == [type |-> "", msg |-> ""]
ValueError(m) == [type |-> "ValueError", msg |-> m]
NameError(m) == [type |-> "NameError", msg |-> m]
IndexError(m) == [type |-> "IndexError", msg |-> m]
AttributeError(m) == [type |-> "AttributeError", msg |-> m]

(***************************************************************************)
(* Calendar dates (datetime.date).                                         *)
(***************************************************************************)
NoDate == [y |-> 0, m |-> 0, d |-> 0]

IsLeap(y) == y % 4 = 0 /\ (y % 100 # 0 \/ y % 400 = 0)

DaysInMonth(y, m) ==
    IF m = 2 THEN (IF IsLeap(y) THEN 29 ELSE 28)
    ELSE IF m \in {4, 6, 9, 11} THEN 30 ELSE 31

ValidDate(y, m, d) ==
    /\ y >= 1 /\ y <= 9999
    /\ m >= 1 /\ m <= 12
    /\ d >= 1 /\ d <= DaysInMonth(y, m)

RECURSIVE DaysBeforeMonth(_, _)
DaysBeforeMonth(y, m) ==
    IF m = 1 THEN 0 ELSE DaysBeforeMonth(y, m - 1) + DaysInMonth(y, m - 1)

DaysBeforeYear(y) ==
    (y - 1) * 365 + ((y - 1) \div 4) - ((y - 1) \div 100) + ((y - 1) \div 400)

\* date.toordinal(); the difference of two dates in days is the difference
\* of their ordinals.
ToOrdinal(dt) == DaysBeforeYear(dt.y) + DaysBeforeMonth(dt.y, dt.m) + dt.d

\* date.replace(year=y): ValueError when the result is not a date.
date_replace_year(dt, y) ==
    IF ValidDate(y, dt.m, dt.d)
    THEN [err |-> NoErr, value |-> [dt EXCEPT !.y = y]]
    ELSE [err |-> ValueError("day is out of range for month"), value |-> NoDate]

\* date.weekday(): Monday is 0.
Weekday(dt) == (ToOrdinal(dt) + 6) % 7

WeekdayName(dt) ==
    LET w == Weekday(dt) IN
    CASE w = 0 -> "Monday" [] w = 1 -> "Tuesday" [] w = 2 -> "Wednesday"
      [] w = 3 -> "Thursday" [] w = 4 -> "Friday" [] w = 5 -> "Saturday"
      [] w = 6 -> "Sunday"

Pad2(n) == <<DigitChar(n \div 10), DigitChar(n % 10)>>

Pad4(n) ==
    <<DigitChar(n \div 1000), DigitChar((n \div 100) % 10),
      DigitChar((n \div 10) % 10), DigitChar(n % 10)>>

\* strftime("%d.%m.%Y")
strftime_dmY(dt) == Pad2(dt.d) \o <<".">> \o Pad2(dt.m) \o <<".">> \o Pad4(dt.y)

\* strftime("%A, %d.%m.%Y")
strftime_AdmY(dt) == <<WeekdayName(dt), ",", " ">> \o strftime_dmY(dt)

\* The regular expressions strptime builds for %d, %m and %Y.
MatchDay(f) ==
    \/ Len(f) = 2 /\ f[1] = "3" /\ f[2] \in {"0", "1"}
    \/ Len(f) = 2 /\ f[1] \in {"1", "2"} /\ f[2] \in DecimalChars
    \/ Len(f) = 2 /\ f[1] = "0" /\ f[2] \in AsciiDigits \ {"0"}
    \/ Len(f) = 1 /\ f[1] \in AsciiDigits \ {"0"}
    \/ Len(f) = 2 /\ f[1] = " " /\ f[2] \in AsciiDigits \ {"0"}

MatchMonth(f) ==
    \/ Len(f) = 2 /\ f[1] = "1" /\ f[2] \in {"0", "1", "2"}
    \/ Len(f) = 2 /\ f[1] = "0" /\ f[2] \in AsciiDigits \ {"0"}
    \/ Len(f) = 1 /\ f[1] \in AsciiDigits \ {"0"}

MatchYear(f) == Len(f) = 4 /\ \A i \in 1..4 : f[i] \in DecimalChars

RECURSIVE ToInt(_)
ToInt(f) ==
    IF f = <<>> THEN 0
    ELSE IF Head(f) = " " THEN ToInt(Tail(f))
    ELSE ToInt(SubSeq(f, 1, Len(f) - 1)) * 10 + DecVal(f[Len(f)])

\* datetime.strptime(value, "%d.%m.%Y").date()
strptime_dmY(value) ==
    LET f == SplitOn(value, ".", <<>>) IN
    IF /\ Len(f) = 3
       /\ MatchDay(f[1]) /\ MatchMonth(f[2]) /\ MatchYear(f[3])
       /\ ValidDate(ToInt(f[3]), ToInt(f[2]), ToInt(f[1]))
    THEN [err |-> NoErr,
          value |-> [y |-> ToInt(f[3]), m |-> ToInt(f[2]), d |-> ToInt(f[1])]]
    ELSE [err |-> ValueError("strptime"), value |-> NoDate]

(***************************************************************************)
(* Field validators.                                                       *)
(***************************************************************************)
Name_is_valid(value) == str_strip(value) # <<>>

Name(name) ==
    IF Name_is_valid(name)
    THEN [err |-> NoErr, value |-> name]
    ELSE [err |-> ValueError("Invalid name format. Name must not be empty."),
          value |-> name]

Phone_is_valid(value) == Len(value) = 10 /\ str_isdigit(value)

Phone(phone) ==
    IF Phone_is_valid(phone)
    THEN [err |-> NoErr, value |-> phone]
    ELSE [err |-> ValueError("Invalid phone  format. Phone must be 10 digits."),
          value |-> phone]

Birthday(value) ==
    LET p == strptime_dmY(value) IN
    IF p.err = NoErr
    THEN [err |-> NoErr, value |-> p.value]
    ELSE [err |-> ValueError("Invalid date format. Use DD.MM.YYYY"),
          value |-> NoDate]

(***************************************************************************)
(* Record.  Each operation yields the record after the call, the exception *)
(* raised (NoErr if none) and the value returned.                          *)
(***************************************************************************)
NoRecord == [name |-> <<>>, phones |-> <<>>, birthday |-> NoDate]

Record(name) ==
    LET n == Name(name) IN
    IF n.err # NoErr
    THEN [err |-> n.err, rec |-> NoRecord]
    ELSE [err |-> NoErr,
          rec |-> [name |-> n.value, phones |-> <<>>, birthday |-> NoDate]]

add_phone(r, phone) ==
    LET p == Phone(phone) IN
    IF p.err # NoErr
    THEN [rec |-> r, err |-> p.err, ret |-> "None"]
    ELSE [rec |-> [r EXCEPT !.phones = Append(@, p.value)],
          err |-> NoErr, ret |-> "None"]

remove_phone(r, phone) ==
    [rec |-> [r EXCEPT !.phones = SelectSeq(@, LAMBDA p : p # phone)],
     err |-> NoErr, ret |-> "None"]

\* The indices of the entries equal to phone.
Matches(phones, phone) == {i \in 1..Len(phones) : phones[i] = phone}

FirstMatch(phones, phone) ==
    CHOOSE i \in Matches(phones, phone) :
        \A j \in Matches(phones, phone) : i <= j

\* edit_phone without the return in its loop: every entry equal to
\* old_phone is replaced.
edit_phone_every_match(r, old_phone, new_phone) ==
    IF Matches(r.phones, old_phone) = {}
    THEN [rec |-> r, err |-> ValueError("Phone not found"), ret |-> "None"]
    ELSE LET p == Phone(new_phone) IN
         IF p.err # NoErr
         THEN [rec |-> r, err |-> p.err, ret |-> "None"]
         ELSE [rec |-> [r EXCEPT !.phones =
                           [i \in 1..Len(@) |->
                               IF @[i] = old_phone THEN p.value ELSE @[i]]],
               err |-> NoErr, ret |-> "None"]

edit_phone(r, old_phone, new_phone) ==
    IF Matches(r.phones, old_phone) = {}
    THEN [rec |-> r, err |-> ValueError("Phone not found"), ret |-> "None"]
    ELSE LET i == FirstMatch(r.phones, old_phone)
             p == Phone(new_phone)
         IN  IF p.err # NoErr
             THEN [rec |-> r, err |-> p.err, ret |-> "None"]
             ELSE [rec |-> [r EXCEPT !.phones[i] = p.value],
                   err |-> NoErr, ret |-> "None"]

find_phone(r, phone) ==
    IF Matches(r.phones, phone) = {}
    THEN [found |-> FALSE, value |-> <<>>]
    ELSE [found |-> TRUE, value |-> r.phones[FirstMatch(r.phones, phone)]]

add_birthday(r, bdate) ==
    LET b == Birthday(bdate) IN
    IF b.err # NoErr
    THEN [rec |-> r, err |-> b.err, ret |-> "None"]
    ELSE IF r.birthday = NoDate
    THEN [rec |-> [r EXCEPT !.birthday = b.value],
          err |-> NoErr, ret |-> "Birthday added."]
    ELSE [rec |-> r, err |-> NoErr, ret |-> "Already have"]

\* Record.__str__
RECURSIVE JoinPhones(_)
JoinPhones(phones) ==
    IF phones = <<>> THEN <<>>
    ELSE IF Len(phones) = 1 THEN phones[1]
    ELSE phones[1] \o <<";", " ">> \o JoinPhones(Tail(phones))

Record_str(r) ==
    <<"Contact name: ">> \o r.name \o <<", phones: ">> \o JoinPhones(r.phones)
        \o <<", birthday: ">>
        \o (IF r.birthday # NoDate THEN strftime_dmY(r.birthday) ELSE <<"N/A">>)

(***************************************************************************)
(* Inputs of the model.                                                    *)
(***************************************************************************)
Alice == <<"A", "l", "i", "c", "e">>
Bob == <<"B", "o", "b">>

PhoneA == <<"1", "2", "3", "4", "5", "6", "7", "8", "9", "0">>
PhoneB == <<"0", "9", "8", "7", "6", "5", "4", "3", "2", "1">>
PhoneArabic ==
    <<"1", "2", "3", "4", "5", "6", "7", "8", "9", "U+0660">>
PhoneShort == <<"1", "2", "3", "4", "5">>
PhoneLong == <<"1", "2", "3", "4", "5", "6", "7", "8", "9", "0", "1">>
PhoneAlpha == <<"1", "2", "3", "4", "5", "a", "b", "c", "d", "e">>

RawPhones ==
    {PhoneA, PhoneB, PhoneArabic, PhoneShort, PhoneLong, PhoneAlpha, <<>>}

D_15_03_1990 == <<"1", "5", ".", "0", "3", ".", "1", "9", "9", "0">>
D_05_06_1990 == <<"0", "5", ".", "0", "6", ".", "1", "9", "9", "0">>
D_29_02_2000 == <<"2", "9", ".", "0", "2", ".", "2", "0", "0", "0">>
D_31_04_1990 == <<"3", "1", ".", "0", "4", ".", "1", "9", "9", "0">>
D_29_02_1990 == <<"2", "9", ".", "0", "2", ".", "1", "9", "9", "0">>
D_Iso == <<"1", "9", "9", "0", "-", "0", "3", "-", "1", "5">>
D_13th_month == <<"0", "1", ".", "1", "3", ".", "1", "9", "9", "0">>

RawDates ==
    {D_15_03_1990, D_05_06_1990, D_29_02_2000, D_31_04_1990, D_29_02_1990,
     D_Iso, D_13th_month, <<>>}

(***************************************************************************)
(* One Record under any sequence of its operations.                        *)
(***************************************************************************)
Call(op, a1, a2, res, pre) ==
    [op |-> op, a1 |-> a1, a2 |-> a2, err |-> res.err, ret |-> res.ret,
     pre |-> pre]

InitRecord ==
    /\ rec = Record(Alice).rec
    /\ book = <<>>
    /\ last = [op |-> "new", a1 |-> Alice, a2 |-> <<>>, err |-> NoErr,
               ret |-> "None", pre |-> NoRecord]
    /\ status = "running"
    /\ saved = <<>>
    /\ out = <<>>

AddPhone ==
    \E raw \in RawPhones :
        LET res == add_phone(rec, raw) IN
        /\ Len(rec.phones) < MaxPhones
        /\ rec' = res.rec
        /\ last' = Call("add_phone", raw, <<>>, res, rec)
        /\ UNCHANGED <<book, status, saved, out>>

RemovePhone ==
    \E raw \in RawPhones :
        LET res == remove_phone(rec, raw) IN
        /\ rec' = res.rec
        /\ last' = Call("remove_phone", raw, <<>>, res, rec)
        /\ UNCHANGED <<book, status, saved, out>>

EditPhone ==
    \E old \in RawPhones, new \in RawPhones :
        LET res == edit_phone(rec, old, new) IN
        /\ rec' = res.rec
        /\ last' = Call("edit_phone", old, new, res, rec)
        /\ UNCHANGED <<book, status, saved, out>>

FindPhone ==
    \E raw \in RawPhones :
        LET res == find_phone(rec, raw) IN
        /\ last' = [op |-> "find_phone", a1 |-> raw, a2 |-> <<>>,
                    err |-> NoErr,
                    ret |-> IF res.found THEN "Phone" ELSE "None",
                    pre |-> rec]
        /\ UNCHANGED <<rec, book, status, saved, out>>

AddBirthday ==
    \E raw \in RawDates :
        LET res == add_birthday(rec, raw) IN
        /\ rec' = res.rec
        /\ last' = Call("add_birthday", raw, <<>>, res, rec)
        /\ UNCHANGED <<book, status, saved, out>>

NextRecord == AddPhone \/ RemovePhone \/ EditPhone \/ FindPhone \/ AddBirthday

SpecRecord == InitRecord /\ [][NextRecord]_vars

(***************************************************************************)
(* C1: every entry of the phone list is a string of exactly 10 ASCII       *)
(* decimal digits; any other raw value is rejected by add_phone and by     *)
(* edit_phone's new value and never enters the list.                       *)
(***************************************************************************)
IsAsciiPhone(p) == Len(p) = 10 /\ \A i \in 1..Len(p) : p[i] \in AsciiDigits

C1_PhonesAreAsciiDigits ==
    /\ \A i \in 1..Len(rec.phones) : IsAsciiPhone(rec.phones[i])
    /\ (last.op = "add_phone" /\ ~IsAsciiPhone(last.a1)) =>
           (last.err # NoErr /\ rec = last.pre)
    /\ (last.op = "edit_phone" /\ ~IsAsciiPhone(last.a2)) =>
           (last.err # NoErr /\ rec = last.pre)

(***************************************************************************)
(* C2: on a Record whose birthday is set, add_birthday(raw) returns the    *)
(* "already set" status without an error for any raw, valid date or not,   *)
(* and leaves the birthday unchanged.                                      *)
(***************************************************************************)
C2_AlreadySetWithoutError ==
    (last.op = "add_birthday" /\ last.pre.birthday # NoDate) =>
        /\ last.err = NoErr
        /\ last.ret = "Already have"
        /\ rec.birthday = last.pre.birthday

(***************************************************************************)
(* C3: edit_phone fails with the kind NotFound when no phone equals the    *)
(* old value, whatever the new value is, and with the distinct kind        *)
(* InvalidFormat when a phone equals the old value and the new value is    *)
(* malformed; in both cases the phone list is unchanged.  The kind of an   *)
(* error is the exception class, which is what a caller dispatches on;     *)
(* InvalidFormat is the class the Phone validator raises.                  *)
(***************************************************************************)
InvalidFormatKind == Phone(<<>>).err.type

C3_DistinctErrorKinds ==
    (last.op = "edit_phone" /\ last.err # NoErr) =>
        /\ rec = last.pre
        /\ IF Matches(last.pre.phones, last.a1) = {}
           THEN last.err.type # InvalidFormatKind
           ELSE ~Phone_is_valid(last.a2) /\ last.err.type = InvalidFormatKind

(***************************************************************************)
(* C4 as stated: after edit_phone(old, new) succeeds with old # new,       *)
(* find_phone(old) reports absent and find_phone(new) reports present,     *)
(* the length is unchanged and only the first entry equal to old was       *)
(* replaced, in place.                                                     *)
(***************************************************************************)
EditSucceeded ==
    last.op = "edit_phone" /\ last.err = NoErr /\ last.a1 # last.a2

ReplacedFirstInPlace ==
    LET pre == last.pre.phones
        i == FirstMatch(pre, last.a1)
    IN  /\ Len(rec.phones) = Len(pre)
        /\ rec.phones[i] = last.a2
        /\ \A j \in 1..Len(pre) : j # i => rec.phones[j] = pre[j]
        /\ find_phone(rec, last.a2).found

C4_OldAbsentAfterEdit ==
    EditSucceeded =>
        /\ ReplacedFirstInPlace
        /\ ~find_phone(rec, last.a1).found

(***************************************************************************)
(* C4 as amended: after edit_phone(old, new) succeeds with old # new,      *)
(* find_phone(new) reports present, the length is unchanged and only the   *)
(* first entry equal to old was replaced, in place; find_phone(old)        *)
(* reports absent exactly when the list held one entry equal to old.       *)
(***************************************************************************)
C4_EditReplacesFirstMatch ==
    EditSucceeded =>
        /\ ReplacedFirstInPlace
        /\ find_phone(rec, last.a1).found
               <=> Cardinality(Matches(last.pre.phones, last.a1)) > 1

C4_Witness ==
    /\ EditSucceeded
    /\ Cardinality(Matches(last.pre.phones, last.a1)) = 2
    /\ FirstMatch(last.pre.phones, last.a1) = 2
    /\ Len(rec.phones) = 3

(***************************************************************************)
(* AddressBook.  The dict of UserDict is the sequence of its items         *)
(* [key, rec] in insertion order.                                          *)
(***************************************************************************)
Keys(b) == {b[i].key : i \in 1..Len(b)}

Index(b, key) == CHOOSE i \in 1..Len(b) : b[i].key = key

\* self.data.get(name)
dict_get(b, key) == IF key \in Keys(b) THEN b[Index(b, key)].rec ELSE NoRecord

\* self.data[key] = value
dict_set(b, key, value) ==
    IF key \in Keys(b)
    THEN [b EXCEPT ![Index(b, key)].rec = value]
    ELSE Append(b, [key |-> key, rec |-> value])

\* self.data.pop(key, None)
dict_pop(b, key) == SelectSeq(b, LAMBDA e : e.key # key)

\* add_record storing the record under a new item whether or not the
\* name is present.
add_record_always_new(b, record) ==
    [book |-> Append(b, [key |-> record.name, rec |-> record]),
     err |-> NoErr, ret |-> <<>>]

add_record(b, record) ==
    [book |-> dict_set(b, record.name, record), err |-> NoErr, ret |-> <<>>]

find(b, name) ==
    [book |-> b, err |-> NoErr,
     ret |-> IF name \in Keys(b) THEN <<dict_get(b, name)>> ELSE <<>>]

\* A Record defines neither __bool__ nor __len__, so a popped Record is
\* true and "not pop(...)" holds exactly when the name was absent.
delete(b, name) ==
    IF name \in Keys(b)
    THEN [book |-> dict_pop(b, name), err |-> NoErr, ret |-> <<>>]
    ELSE [book |-> b, err |-> NameError("Contact not found"), ret |-> <<>>]

\* The loop of get_upcoming_birthdays over self.values(), from the first
\* item on, with the list built so far.
RECURSIVE upcoming_loop(_, _, _)
upcoming_loop(items, tdate, birthdays) ==
    IF items = <<>> THEN [err |-> NoErr, ret |-> birthdays]
    ELSE
        LET record == Head(items).rec
            bdate == record.birthday
        IN  IF bdate = NoDate
            THEN upcoming_loop(Tail(items), tdate, birthdays)
            ELSE
                LET r == date_replace_year(bdate, tdate.y)
                    days_between == ToOrdinal(r.value) - ToOrdinal(tdate)
                IN  IF r.err # NoErr THEN [err |-> r.err, ret |-> <<>>]
                    ELSE IF 0 <= days_between /\ days_between <= 7
                    THEN upcoming_loop(Tail(items), tdate,
                             Append(birthdays,
                                 [name |-> record.name,
                                  birthday |-> strftime_AdmY(r.value)]))
                    ELSE upcoming_loop(Tail(items), tdate, birthdays)

\* tdate is the value of datetime.today().date() at the call.
get_upcoming_birthdays(b, tdate) ==
    LET r == upcoming_loop(b, tdate, <<>>) IN
    [book |-> b, err |-> r.err, ret |-> r.ret]

\* AddressBook.__str__, one line per record; the lines are joined by "\n"
\* and the result is stripped.
RECURSIVE BookLines(_)
BookLines(b) ==
    IF b = <<>> THEN <<>>
    ELSE Record_str(Head(b).rec) \o <<"\n">> \o BookLines(Tail(b))

AddressBook_str(b) ==
    LET s == BookLines(b) IN
    IF s = <<>> THEN s ELSE SubSeq(s, 1, Len(s) - 1)

\* input_error: the exception classes the wrapper turns into a message.
input_error(res) ==
    IF res.err = NoErr THEN [err |-> NoErr, ret |-> res.ret]
    ELSE IF res.err.type = "ValueError"
    THEN [err |-> NoErr, ret |-> <<"Value error: ", res.err.msg>>]
    ELSE IF res.err.type = "KeyError"
    THEN [err |-> NoErr, ret |-> <<"No such name found">>]
    ELSE IF res.err.type = "IndexError"
    THEN [err |-> NoErr, ret |-> <<"Not found">>]
    ELSE [err |-> res.err, ret |-> <<>>]

(***************************************************************************)
(* One AddressBook under any sequence of its operations, holding valid     *)
(* Records.                                                                *)
(***************************************************************************)
Carol == <<"C", "a", "r", "o", "l">>

BookNames == {Alice, Bob, Carol}

D_10_06_1990 == <<"1", "0", ".", "0", "6", ".", "1", "9", "9", "0">>
D_30_05_1990 == <<"3", "0", ".", "0", "5", ".", "1", "9", "9", "0">>
D_08_06_1990 == <<"0", "8", ".", "0", "6", ".", "1", "9", "9", "0">>
D_01_06_1990 == <<"0", "1", ".", "0", "6", ".", "1", "9", "9", "0">>
D_02_01_1990 == <<"0", "2", ".", "0", "1", ".", "1", "9", "9", "0">>

BookDates ==
    {D_05_06_1990, D_10_06_1990, D_30_05_1990, D_08_06_1990, D_01_06_1990,
     D_02_01_1990, D_29_02_2000}

Date(y, m, d) == [y |-> y, m |-> m, d |-> d]

Todays ==
    {Date(2024, 6, 1), Date(2023, 12, 30), Date(2023, 2, 25),
     Date(2024, 2, 25), Date(2024, 12, 31)}

\* The Records a caller can build: Record(name), add_phone and at most one
\* add_birthday, none of them failing.
ValidRecords ==
    LET fresh == {Record(n).rec : n \in {m \in BookNames : Record(m).err = NoErr}}
        phoned == {add_phone(r, PhoneA).rec : r \in fresh}
    IN  phoned \cup
        {add_birthday(r, d).rec :
            r \in phoned, d \in {e \in BookDates : Birthday(e).err = NoErr}}

BookCall(op, key, arg, tdate, res, pre) ==
    [op |-> op, key |-> key, arg |-> arg, today |-> tdate, err |-> res.err,
     ret |-> res.ret, pre |-> pre]

InitBook ==
    /\ book = <<>>
    /\ rec = NoRecord
    /\ last = [op |-> "new", key |-> <<>>, arg |-> NoRecord, today |-> NoDate,
               err |-> NoErr, ret |-> <<>>, pre |-> <<>>]
    /\ status = "running"
    /\ saved = <<>>
    /\ out = <<>>

BookAddRecord ==
    \E record \in ValidRecords :
        LET res == add_record(book, record) IN
        /\ record.name \in Keys(book) \/ Len(book) < MaxContacts
        /\ book' = res.book
        /\ last' = BookCall("add_record", record.name, record, NoDate, res, book)
        /\ UNCHANGED <<rec, status, saved, out>>

BookFind ==
    \E name \in BookNames :
        LET res == find(book, name) IN
        /\ book' = res.book
        /\ last' = BookCall("find", name, NoRecord, NoDate, res, book)
        /\ UNCHANGED <<rec, status, saved, out>>

BookDelete ==
    \E name \in BookNames :
        LET res == delete(book, name) IN
        /\ book' = res.book
        /\ last' = BookCall("delete", name, NoRecord, NoDate, res, book)
        /\ UNCHANGED <<rec, status, saved, out>>

BookUpcoming ==
    \E tdate \in Todays :
        LET res == get_upcoming_birthdays(book, tdate) IN
        /\ book' = res.book
        /\ last' = BookCall("get_upcoming_birthdays", <<>>, NoRecord, tdate,
                            res, book)
        /\ UNCHANGED <<rec, status, saved, out>>

NextBook == BookAddRecord \/ BookFind \/ BookDelete \/ BookUpcoming

SpecBook == InitBook /\ [][NextBook]_vars

(***************************************************************************)
(* C5: delete(name) fails with NotFound and leaves the book unchanged when *)
(* the book has no entry for name; otherwise it succeeds, removes exactly  *)
(* that entry and leaves every other entry unchanged.  The failure is one  *)
(* the command layer (input_error) recovers from.                          *)
(***************************************************************************)
C5_DeleteNotFoundRecovered ==
    last.op = "delete" =>
        IF last.key \in Keys(last.pre)
        THEN /\ last.err = NoErr
             /\ find(book, last.key).ret = <<>>
             /\ book = SelectSeq(last.pre, LAMBDA e : e.key # last.key)
        ELSE /\ last.err # NoErr
             /\ book = last.pre
             /\ input_error([err |-> last.err, ret |-> <<>>]).err = NoErr

(***************************************************************************)
(* C6: get_upcoming_birthdays does not fail and returns exactly one entry  *)
(* for each Record whose birthday, moved to today's year, lies 0 to 7 days *)
(* after today, and no other entry.                                        *)
(***************************************************************************)
InWindow(r, tdate) ==
    /\ r.birthday # NoDate
    /\ ValidDate(tdate.y, r.birthday.m, r.birthday.d)
    /\ ToOrdinal(Date(tdate.y, r.birthday.m, r.birthday.d)) - ToOrdinal(tdate)
           \in 0..7

Reported(ret) == {ret[i].name : i \in 1..Len(ret)}

C6_UpcomingExactlyWindow ==
    last.op = "get_upcoming_birthdays" =>
        /\ last.err = NoErr
        /\ Reported(last.ret) =
               {k \in Keys(book) : InWindow(dict_get(book, k), last.today)}
        /\ Len(last.ret) = Cardinality(Reported(last.ret))

(***************************************************************************)
(* C7: the book holds at most one Record per name and every key equals    *)
(* the name of the Record stored under it; add_record with a name already  *)
(* present replaces the stored Record and leaves every entry under a       *)
(* different name unchanged.                                               *)
(***************************************************************************)
C7_OneRecordPerName ==
    /\ \A i, j \in 1..Len(book) : book[i].key = book[j].key => i = j
    /\ \A i \in 1..Len(book) : book[i].key = book[i].rec.name
    /\ last.op = "add_record" =>
           /\ find(book, last.key).ret = <<last.arg>>
           /\ Keys(book) = Keys(last.pre) \cup {last.key}
           /\ \A k \in Keys(last.pre) \ {last.key} :
                  dict_get(book, k) = dict_get(last.pre, k)

C7_Witness ==
    /\ last.op = "add_record"
    /\ last.key \in Keys(last.pre)
    /\ dict_get(last.pre, last.key) # last.arg
    /\ Len(last.pre) = 2
    /\ Len(book) = 2

(***************************************************************************)
(* C9: the window is rolling: a Record whose birthday next occurs, on or   *)
(* after today, at most 7 days ahead is reported, also when that           *)
(* occurrence falls in the following calendar year.                        *)
(***************************************************************************)
\* The first date on or after tdate with the month and day of bdate.
NextOccurrence(bdate, tdate) ==
    LET years == {y \in tdate.y..(tdate.y + 8) :
                     /\ ValidDate(y, bdate.m, bdate.d)
                     /\ ToOrdinal(Date(y, bdate.m, bdate.d)) >= ToOrdinal(tdate)}
        y0 == CHOOSE y \in years : \A z \in years : y <= z
    IN  Date(y0, bdate.m, bdate.d)

DaysAhead(bdate, tdate) ==
    ToOrdinal(NextOccurrence(bdate, tdate)) - ToOrdinal(tdate)

C9_RollingWindow ==
    (last.op = "get_upcoming_birthdays" /\ last.err = NoErr) =>
        \A k \in Keys(book) :
            LET r == dict_get(book, k) IN
            (r.birthday # NoDate /\ DaysAhead(r.birthday, last.today) <= 7)
                => k \in Reported(last.ret)

(***************************************************************************)
(* The command layer.  A handler yields the book after the call, the       *)
(* exception that left it (NoErr if none) and the value returned, a        *)
(* message given as a sequence of text fragments.                          *)
(***************************************************************************)
\* str.lower() on the letters of ASCII.
LowerChar(c) ==
    CASE c = "A" -> "a"
      [] c = "B" -> "b"
      [] c = "C" -> "c"
      [] c = "D" -> "d"
      [] c = "E" -> "e"
      [] c = "F" -> "f"
      [] c = "G" -> "g"
      [] c = "H" -> "h"
      [] c = "I" -> "i"
      [] c = "J" -> "j"
      [] c = "K" -> "k"
      [] c = "L" -> "l"
      [] c = "M" -> "m"
      [] c = "N" -> "n"
      [] c = "O" -> "o"
      [] c = "P" -> "p"
      [] c = "Q" -> "q"
      [] c = "R" -> "r"
      [] c = "S" -> "s"
      [] c = "T" -> "t"
      [] c = "U" -> "u"
      [] c = "V" -> "v"
      [] c = "W" -> "w"
      [] c = "X" -> "x"
      [] c = "Y" -> "y"
      [] c = "Z" -> "z"
      [] OTHER -> c

str_lower(s) == [i \in 1..Len(s) |-> LowerChar(s[i])]

\* "Value error: " followed by the message of the ValueError that unpacking
\* an empty list into "cmd, *args" raises.
UnpackErrorText ==
    <<"V", "a", "l", "u", "e", " ", "e", "r", "r", "o", "r", ":", " ", "n",
    "o", "t", " ", "e", "n", "o", "u", "g", "h", " ", "v", "a", "l", "u",
    "e", "s", " ", "t", "o", " ", "u", "n", "p", "a", "c", "k", " ", "(",
    "e", "x", "p", "e", "c", "t", "e", "d", " ", "a", "t", " ", "l", "e",
    "a", "s", "t", " ", "1", ",", " ", "g", "o", "t", " ", "0", ")">>

\* parse_input under input_error.  On the ValueError of an empty split the
\* wrapper returns its message, a string, which main() unpacks character
\* by character.
parse_input(user_input) ==
    LET w == str_split(user_input) IN
    IF w = <<>>
    THEN [i \in 1..Len(UnpackErrorText) |-> <<UnpackErrorText[i]>>]
    ELSE <<str_lower(str_strip(w[1]))>> \o Tail(w)

UnpackError(n) ==
    ValueError(IF n < 2 THEN "not enough values to unpack"
               ELSE "too many values to unpack")

Raise(b, e) == [book |-> b, err |-> e, ret |-> <<>>]
Return(b, m) == [book |-> b, err |-> NoErr, ret |-> m]

\* The handlers without their input_error wrapper.
add_contact_body(args, b) ==
    IF Len(args) # 2 THEN Raise(b, UnpackError(Len(args)))
    ELSE LET name == args[1]
             phone == args[2]
         IN  IF name \notin Keys(b)
             THEN LET r == Record(name)
                      a == add_phone(r.rec, phone)
                  IN  IF r.err # NoErr THEN Raise(b, r.err)
                      ELSE IF a.err # NoErr THEN Raise(b, a.err)
                      ELSE Return(add_record(b, a.rec).book, <<"Contact added.">>)
             ELSE Return(b, <<"Already have">>)

show_phone_body(args, b) ==
    IF Len(args) = 0 THEN Raise(b, IndexError("list index out of range"))
    ELSE LET record == find(b, args[1]).ret IN
         IF record # <<>> THEN Return(b, Record_str(record[1]))
         ELSE Return(b, <<"Not found">>)

\* change_contact adding the new phone instead of replacing the first.
change_contact_body_adds(args, b) ==
    IF Len(args) # 2 THEN Raise(b, UnpackError(Len(args)))
    ELSE LET name == args[1]
             phone == args[2]
             record == find(b, name).ret
         IN  IF record # <<>>
             THEN LET e == add_phone(record[1], phone)
                  IN  IF e.err # NoErr THEN Raise(b, e.err)
                      ELSE Return(dict_set(b, name, e.rec),
                                  <<"Contact changed.">>)
             ELSE Return(b, <<"Not found">>)

change_contact_body(args, b) ==
    IF Len(args) # 2 THEN Raise(b, UnpackError(Len(args)))
    ELSE LET name == args[1]
             phone == args[2]
             record == find(b, name).ret
         IN  IF record # <<>>
             THEN IF record[1].phones = <<>>
                  THEN Raise(b, IndexError("list index out of range"))
                  ELSE LET e == edit_phone(record[1], record[1].phones[1], phone)
                       IN  IF e.err # NoErr THEN Raise(b, e.err)
                           ELSE Return(dict_set(b, name, e.rec),
                                       <<"Contact changed.">>)
             ELSE Return(b, <<"Not found">>)

all_contact_body(b) ==
    IF b # <<>> THEN Return(b, AddressBook_str(b)) ELSE Return(b, <<"Not found">>)

add_birthday_body(args, b) ==
    IF Len(args) # 2 THEN Raise(b, UnpackError(Len(args)))
    ELSE LET name == args[1]
             bdate == args[2]
             record == find(b, name).ret
         IN  IF record # <<>>
             THEN LET a == add_birthday(record[1], bdate) IN
                  IF a.err # NoErr THEN Raise(b, a.err)
                  ELSE Return(dict_set(b, name, a.rec), <<a.ret>>)
             ELSE Return(b, <<"Contact not found">>)

show_birthday_body(args, b) ==
    IF Len(args) = 0 THEN Raise(b, IndexError("list index out of range"))
    ELSE LET record == find(b, args[1]).ret IN
         IF record # <<>>
         THEN IF record[1].birthday = NoDate
              THEN Raise(b, AttributeError(
                       "'NoneType' object has no attribute 'value'"))
              ELSE Return(b, strftime_dmY(record[1].birthday))
         ELSE Return(b, <<"Not found">>)

RECURSIVE BirthdayLines(_)
BirthdayLines(infos) ==
    IF infos = <<>> THEN <<>>
    ELSE Head(infos).name \o <<"'s birthday is on ">> \o Head(infos).birthday
             \o <<".", "\n">> \o BirthdayLines(Tail(infos))

birthdays_body(b, tdate) ==
    LET u == get_upcoming_birthdays(b, tdate) IN
    IF u.err # NoErr THEN Raise(b, u.err)
    ELSE IF u.ret # <<>>
    THEN Return(b, SubSeq(BirthdayLines(u.ret), 1, Len(BirthdayLines(u.ret)) - 1))
    ELSE Return(b, <<"Not upcoming birthdays">>)

\* A handler as main() calls it: its body under input_error.
Wrapped(res) ==
    LET w == input_error(res) IN
    [book |-> res.book, err |-> w.err, ret |-> w.ret]

add_contact(args, b) == Wrapped(add_contact_body(args, b))
show_phone(args, b) == Wrapped(show_phone_body(args, b))
change_contact(args, b) == Wrapped(change_contact_body(args, b))
all_contact(b) == Wrapped(all_contact_body(b))
add_birthday_cmd(args, b) == Wrapped(add_birthday_body(args, b))
show_birthday(args, b) == Wrapped(show_birthday_body(args, b))
birthdays(b, tdate) == Wrapped(birthdays_body(b, tdate))

(***************************************************************************)
(* main(): the command loop.                                               *)
(***************************************************************************)
W_close == <<"c", "l", "o", "s", "e">>
W_exit == <<"e", "x", "i", "t">>
W_help == <<"h", "e", "l", "p">>
W_hello == <<"h", "e", "l", "l", "o">>
W_add == <<"a", "d", "d">>
W_change == <<"c", "h", "a", "n", "g", "e">>
W_phone == <<"p", "h", "o", "n", "e">>
W_all == <<"a", "l", "l">>
W_add_birthday == <<"a", "d", "d", "-", "b", "i", "r", "t", "h", "d", "a", "y">>
W_show_birthday == <<"s", "h", "o", "w", "-", "b", "i", "r", "t", "h", "d", "a", "y">>
W_birthdays == <<"b", "i", "r", "t", "h", "d", "a", "y", "s">>
W_foo == <<"f", "o", "o">>
W_EXIT == <<"E", "X", "I", "T">>
W_Hello == <<"H", "e", "l", "l", "o">>

CommandWords ==
    {W_close, W_exit, W_help, W_hello, W_add, W_change, W_phone, W_all,
     W_add_birthday, W_show_birthday, W_birthdays, W_foo, W_EXIT, W_Hello}

RECURSIVE JoinWords(_)
JoinWords(ws) ==
    IF ws = <<>> THEN <<>>
    ELSE IF Len(ws) = 1 THEN ws[1]
    ELSE ws[1] \o <<" ">> \o JoinWords(Tail(ws))

CmdNames == {Alice, Bob}
CmdPhones == {PhoneA, PhoneB, PhoneShort, PhoneArabic}
CmdDates == {D_05_06_1990, D_29_02_2000, D_31_04_1990}

\* The lines the user types.
Lines ==
    {JoinWords(<<c>>) : c \in CommandWords}
    \cup {JoinWords(<<c, n, x>>) :
              c \in {W_add, W_change}, n \in CmdNames, x \in CmdPhones}
    \cup {JoinWords(<<c, n>>) :
              c \in {W_add, W_change, W_phone, W_show_birthday, W_add_birthday},
              n \in CmdNames}
    \cup {JoinWords(<<W_add_birthday, n, x>>) : n \in CmdNames, x \in CmdDates}
    \cup {JoinWords(<<W_add, Alice, PhoneA, PhoneB>>), <<>>, <<" ", " ">>,
          <<" ">> \o JoinWords(<<W_phone, Alice>>) \o <<" ">>}

\* What main() takes from each line: "command, *args = parse_input(line)".
Parsed == [line \in Lines |-> parse_input(line)]

NotSaved == [done |-> FALSE, book |-> <<>>]

\* The fields of "last": the line read, the command and arguments main()
\* took from it, the day of the call and the book before the command.
Typed(line, tdate, pre) ==
    [line |-> line, command |-> Head(Parsed[line]),
     args |-> Tail(Parsed[line]), today |-> tdate, pre |-> pre]

\* load_data() finds no file and returns an empty AddressBook.
InitCmd ==
    /\ book = <<>>
    /\ rec = NoRecord
    /\ last = [line |-> <<>>, command |-> <<>>, args |-> <<>>,
               today |-> NoDate, pre |-> <<>>]
    /\ status = "running"
    /\ saved = NotSaved
    /\ out = <<"Welcome to the assistant bot!">>

\* A handler has returned or raised: its message is displayed and the loop
\* goes on, or the exception leaves main().
Dispatch(line, tdate, res) ==
    /\ last' = Typed(line, tdate, book)
    /\ book' = res.book
    /\ saved' = saved
    /\ rec' = rec
    /\ IF res.err = NoErr
       THEN status' = "running" /\ out' = res.ret
       ELSE status' = "uncaught" /\ out' = <<"Traceback", res.err.type>>

Reads(line, word) ==
    /\ status = "running"
    /\ Head(Parsed[line]) = word

CmdExit ==
    \E line \in Lines :
        /\ Reads(line, W_close) \/ Reads(line, W_exit)
        /\ saved' = [done |-> TRUE, book |-> book]
        /\ out' = <<"Good bye!">>
        /\ status' = "exited"
        /\ last' = Typed(line, NoDate, book)
        /\ UNCHANGED <<book, rec>>

CmdHelp ==
    \E line \in Lines :
        /\ Reads(line, W_help)
        /\ Dispatch(line, NoDate, Return(book, <<"0: hello -> ...">>))

CmdHello ==
    \E line \in Lines :
        /\ Reads(line, W_hello)
        /\ Dispatch(line, NoDate, Return(book, <<"How can I help you?">>))

CmdAdd ==
    \E line \in Lines :
        /\ Reads(line, W_add)
        /\ Dispatch(line, NoDate, add_contact(Tail(Parsed[line]), book))

CmdChange ==
    \E line \in Lines :
        /\ Reads(line, W_change)
        /\ Dispatch(line, NoDate, change_contact(Tail(Parsed[line]), book))

CmdPhone ==
    \E line \in Lines :
        /\ Reads(line, W_phone)
        /\ Dispatch(line, NoDate, show_phone(Tail(Parsed[line]), book))

\* display_contact prints "Not found" for an empty value.
CmdAll ==
    \E line \in Lines :
        /\ Reads(line, W_all)
        /\ LET res == all_contact(book) IN
           Dispatch(line, NoDate,
               IF res.err = NoErr /\ res.ret = <<>>
               THEN Return(book, <<"Not found">>) ELSE res)

CmdAddBirthday ==
    \E line \in Lines :
        /\ Reads(line, W_add_birthday)
        /\ Dispatch(line, NoDate,
                    add_birthday_cmd(Tail(Parsed[line]), book))

CmdShowBirthday ==
    \E line \in Lines :
        /\ Reads(line, W_show_birthday)
        /\ Dispatch(line, NoDate, show_birthday(Tail(Parsed[line]), book))

CmdBirthdays ==
    \E line \in Lines, tdate \in Todays :
        /\ Reads(line, W_birthdays)
        /\ Dispatch(line, tdate, birthdays(book, tdate))

CmdInvalid ==
    \E line \in Lines :
        /\ status = "running"
        /\ Head(Parsed[line]) \notin
               {W_close, W_exit, W_help, W_hello, W_add, W_change, W_phone,
                W_all, W_add_birthday, W_show_birthday, W_birthdays}
        /\ Dispatch(line, NoDate, Return(book, <<"Invalid command.">>))

NextCmd ==
    \/ CmdExit \/ CmdHelp \/ CmdHello \/ CmdAdd \/ CmdChange \/ CmdPhone
    \/ CmdAll \/ CmdAddBirthday \/ CmdShowBirthday \/ CmdBirthdays
    \/ CmdInvalid

SpecCmd == InitCmd /\ [][NextCmd]_vars

(***************************************************************************)
(* C8: every command ends with a message displayed and the loop asking     *)
(* for the next command; the process ends only on close or exit, and only  *)
(* after the current book was handed to save_data.                         *)
(***************************************************************************)
C8_EndsOnlyOnExit ==
    /\ out # <<>>
    /\ status # "running" =>
           /\ status = "exited"
           /\ last.command \in {W_close, W_exit}
           /\ saved = [done |-> TRUE, book |-> book]

(***************************************************************************)
(* C10: from an empty book, after any sequence of commands every contact   *)
(* has exactly one phone, which passes the Phone validator; "add" stores   *)
(* a contact only under a new name and with a phone that validates, and    *)
(* "change" only replaces the first phone of a known contact by a phone    *)
(* that validates; both leave the book unchanged otherwise.                *)
(***************************************************************************)
NewContact(name, phone) ==
    [key |-> name, rec |-> [name |-> name, phones |-> <<phone>>,
                            birthday |-> NoDate]]

C10_OneValidPhonePerContact ==
    /\ \A i \in 1..Len(book) :
           /\ Len(book[i].rec.phones) = 1
           /\ Phone_is_valid(book[i].rec.phones[1])
    /\ last.command = W_add =>
           \/ book = last.pre
           \/ /\ Len(last.args) = 2
              /\ last.args[1] \notin Keys(last.pre)
              /\ Phone_is_valid(last.args[2])
              /\ book = Append(last.pre, NewContact(last.args[1], last.args[2]))
    /\ last.command = W_change =>
           \/ book = last.pre
           \/ /\ Len(last.args) = 2
              /\ last.args[1] \in Keys(last.pre)
              /\ Phone_is_valid(last.args[2])
              /\ book = [last.pre EXCEPT
                            ![Index(last.pre, last.args[1])].rec.phones[1] =
                                last.args[2]]

C10_Witness ==
    /\ last.command = W_change
    /\ book # last.pre
    /\ Len(book) = 2
    /\ \E i \in 1..Len(book) : book[i].rec.birthday # NoDate
====
